---- MODULE Spec2Model ----
(***************************************************************************)
(* A model of test_server/server.py: the TestServer configuration store    *)
(* (response, response_once, timeout_iterator), the shared request record  *)
(* and MainHandler.method_handler running on the tornado IOLoop.           *)
(***************************************************************************)
EXTENDS Integers, Sequences, FiniteSets, TLC

VARIABLES
    response,          \* TestServer.response        (dict: key -> value)
    response_once,     \* TestServer.response_once   (dict: key -> value)
    request,           \* TestServer.request         (the captured-request dict)
    timeout_iterator,  \* TestServer.timeout_iterator (None, or a list iterator)
    conns,             \* the requests accepted so far, one handler run each
    order,             \* history: ids in the order they were captured since reset()
    drawn,             \* history: ids that ran line 134-137 since the iterator was set
    lastOp,            \* history: the operation that produced this state
    nops,              \* number of configuration operations performed
    ret,               \* result of the test thread's last direct get_param call
    setup,             \* history: the one-shot override installed before serving
    other              \* a second TestServer of the process: its response, response_once

vars == <<response, response_once, request, timeout_iterator, conns, order,
          drawn, lastOp, nops, ret, setup, other>>

----------------------------------------------------------------------------
(* Bounds of the model. *)

MaxRequests == 2
MaxConfigOps == 2

----------------------------------------------------------------------------
(* Python values. Every value is tagged with its type, so that None, numbers, *)
(* strings, lists and callables can be held in one dict.                       *)

None == [t |-> "none", v |-> "None"]
Num(n) == [t |-> "num", v |-> n]
Str(s) == [t |-> "str", v |-> s]
List(s) == [t |-> "list", v |-> s]
Callable(name) == [t |-> "callable", v |-> name]

\* Python truthiness, as used by `if sleep:` (line 90).
Truthy(x) ==
    CASE x.t = "none" -> FALSE
      [] x.t = "num" -> x.v /= 0
      [] x.t = "str" -> x.v /= ""
      [] x.t = "list" -> x.v /= <<>>
      [] OTHER -> TRUE

\* Invoking a zero-argument callable body (line 130): what data() returns.
CallResult(f) == f.v \o "()"

\* A dict with key k removed / set.
DictDel(d, k) == [x \in DOMAIN d \ {k} |-> d[x]]
DictSet(d, k, val) == [x \in DOMAIN d \cup {k} |-> IF x = k THEN val ELSE d[x]]
EmptyDict == [x \in {} |-> None]

----------------------------------------------------------------------------
(* Names. *)

\* TestServer.methods (lines 23-24).
methods == {"get", "post", "head", "options", "put", "delete", "patch", "trace",
            "connect"}

\* The verbs MainHandler binds to method_handler (lines 140-144).
HandlerMethods == {"get", "post", "put", "patch", "delete"}

\* The keys reset() gives the response dict (lines 64-71).
Fields == {"code", "data", "headers", "cookies", "callback", "sleep"}

\* self.request.method.lower() (line 87).
Lower(m) ==
    CASE m = "GET" -> "get"
      [] m = "POST" -> "post"
      [] m = "PUT" -> "put"
      [] m = "PATCH" -> "patch"
      [] m = "DELETE" -> "delete"
      [] m = "HEAD" -> "head"
      [] m = "OPTIONS" -> "options"
      [] m = "TRACE" -> "trace"
      [] m = "CONNECT" -> "connect"
      [] OTHER -> m

\* A slip in line 35: the method is not made part of the key.
MethodKey_fixed(method, key) == "get." \o key

\* '%s.%s' % (method, key) (line 35).
MethodKey(method, key) == method \o "." \o key

\* A slip in line 103: the callback is looked up under "method.callback".
CallbackName_dotted(method) == method \o ".callback"

\* '%s_callback' % method (line 103).
CallbackName(method) == method \o "_callback"

----------------------------------------------------------------------------
(* A slip in get_param: line 39 is missing, the method-qualified one-shot    *)
(* entry is returned without being deleted.                                   *)

get_param_keeps_entry(once, resp, key, method, clear_once) ==
    LET method_key == MethodKey(method, key) IN
    IF method_key \in DOMAIN once
    THEN [raised |-> FALSE, value |-> once[method_key], once |-> once]
    ELSE IF key \in DOMAIN once
    THEN [raised |-> FALSE, value |-> once[key],
          once |-> IF clear_once THEN DictDel(once, key) ELSE once]
    ELSE IF method_key \in DOMAIN resp
    THEN [raised |-> FALSE, value |-> resp[method_key], once |-> once]
    ELSE IF key \in DOMAIN resp
    THEN [raised |-> FALSE, value |-> resp[key], once |-> once]
    ELSE [raised |-> TRUE, value |-> None, once |-> once]

(* A slip in get_param: the bare one-shot key is tried before the            *)
(* method-qualified one.                                                      *)

get_param_bare_first(once, resp, key, method, clear_once) ==
    LET method_key == MethodKey(method, key) IN
    IF key \in DOMAIN once
    THEN [raised |-> FALSE, value |-> once[key],
          once |-> IF clear_once THEN DictDel(once, key) ELSE once]
    ELSE IF method_key \in DOMAIN once
    THEN [raised |-> FALSE, value |-> once[method_key],
          once |-> IF clear_once THEN DictDel(once, method_key) ELSE once]
    ELSE IF method_key \in DOMAIN resp
    THEN [raised |-> FALSE, value |-> resp[method_key], once |-> once]
    ELSE IF key \in DOMAIN resp
    THEN [raised |-> FALSE, value |-> resp[key], once |-> once]
    ELSE [raised |-> TRUE, value |-> None, once |-> once]

(* A slip in get_param: line 44 is missing, the bare one-shot entry is        *)
(* returned without being deleted.                                            *)

get_param_keeps_bare(once, resp, key, method, clear_once) ==
    LET method_key == MethodKey(method, key) IN
    IF method_key \in DOMAIN once
    THEN [raised |-> FALSE, value |-> once[method_key],
          once |-> IF clear_once THEN DictDel(once, method_key) ELSE once]
    ELSE IF key \in DOMAIN once
    THEN [raised |-> FALSE, value |-> once[key], once |-> once]
    ELSE IF method_key \in DOMAIN resp
    THEN [raised |-> FALSE, value |-> resp[method_key], once |-> once]
    ELSE IF key \in DOMAIN resp
    THEN [raised |-> FALSE, value |-> resp[key], once |-> once]
    ELSE [raised |-> TRUE, value |-> None, once |-> once]

(* A slip in get_param: on a hit of the method-qualified one-shot entry the   *)
(* bare one-shot entry is deleted with it.                                    *)

get_param_clears_both(once, resp, key, method, clear_once) ==
    LET method_key == MethodKey(method, key) IN
    IF method_key \in DOMAIN once
    THEN [raised |-> FALSE, value |-> once[method_key],
          once |-> IF clear_once THEN DictDel(DictDel(once, method_key), key)
                                 ELSE once]
    ELSE IF key \in DOMAIN once
    THEN [raised |-> FALSE, value |-> once[key],
          once |-> IF clear_once THEN DictDel(once, key) ELSE once]
    ELSE IF method_key \in DOMAIN resp
    THEN [raised |-> FALSE, value |-> resp[method_key], once |-> once]
    ELSE IF key \in DOMAIN resp
    THEN [raised |-> FALSE, value |-> resp[key], once |-> once]
    ELSE [raised |-> TRUE, value |-> None, once |-> once]

----------------------------------------------------------------------------
(* TestServer.get_param (lines 34-52), as a function of the two dicts. It     *)
(* yields the value, whether the lookup raised TestServerRuntimeError, and    *)
(* the response_once dict it leaves behind.                                   *)

get_param(once, resp, key, method, clear_once) ==
    LET method_key == MethodKey(method, key) IN
    IF method_key \in DOMAIN once
    THEN [raised |-> FALSE, value |-> once[method_key],
          once |-> IF clear_once THEN DictDel(once, method_key) ELSE once]
    ELSE IF key \in DOMAIN once
    THEN [raised |-> FALSE, value |-> once[key],
          once |-> IF clear_once THEN DictDel(once, key) ELSE once]
    ELSE IF method_key \in DOMAIN resp
    THEN [raised |-> FALSE, value |-> resp[method_key], once |-> once]
    ELSE IF key \in DOMAIN resp
    THEN [raised |-> FALSE, value |-> resp[key], once |-> once]
    ELSE [raised |-> TRUE, value |-> None, once |-> once]

----------------------------------------------------------------------------
(* TestServer.reset (lines 54-73). *)

\* The dict reset() merges into self.request (lines 55-63).
BlankRequest ==
    [args |-> EmptyDict, headers |-> EmptyDict, cookies |-> None, path |-> None,
     method |-> None, charset |-> Str("utf-8"), data |-> None]

\* The dict reset() assigns to self.response (lines 64-71).
DefaultResponse ==
    [x \in Fields |->
        CASE x = "code" -> Num(200)
          [] x = "data" -> Str("")
          [] x = "headers" -> List(<<>>)
          [] x = "cookies" -> List(<<>>)
          [] OTHER -> None]

\* A slip in reset(): line 56 is missing, the captured arguments survive.
reset_keeps_args(req) ==
    [request |-> [x \in DOMAIN req \cup DOMAIN BlankRequest |->
                     IF x \in DOMAIN BlankRequest \ {"args"}
                     THEN BlankRequest[x] ELSE req[x]],
     response |-> DefaultResponse,
     response_once |-> EmptyDict]

\* A slip in reset(): line 68 is missing, the response gets no 'cookies' default.
reset_without_cookies(req) ==
    [request |-> [x \in DOMAIN req \cup DOMAIN BlankRequest |->
                     IF x \in DOMAIN BlankRequest THEN BlankRequest[x] ELSE req[x]],
     response |-> [x \in Fields \ {"cookies"} |-> DefaultResponse[x]],
     response_once |-> EmptyDict]

\* reset(): request.update(...) overwrites the seven keys and keeps any other,
\* response is replaced, response_once is replaced by an empty dict.
reset(req) ==
    [request |-> [x \in DOMAIN req \cup DOMAIN BlankRequest |->
                     IF x \in DOMAIN BlankRequest THEN BlankRequest[x] ELSE req[x]],
     response |-> DefaultResponse,
     response_once |-> EmptyDict]

----------------------------------------------------------------------------
(* HTTP requests, as tornado hands them to the handler. *)

Bytes(s) == [t |-> "bytes", v |-> s]

\* The ports main_loop_function listens on: [self.port] + self.extra_ports
\* (line 161), with the default port of line 26 and one extra port.
Ports == {9876, 9877}

\* The requests a client sends: method, path, query arguments (each name with
\* the list of its raw values), headers, cookies, body, and the port of the
\* listener that accepted it.
ReqInputs ==
    { [method |-> "GET", path |-> "/a", port |-> 9876,
       arguments |-> [k \in {"x", "y"} |-> IF k = "x" THEN <<Bytes("1"), Bytes("2")>>
                                                      ELSE <<Bytes("3")>>],
       headers |-> [k \in {"Accept"} |-> "*/*"],
       cookies |-> [k \in {} |-> ""],
       body |-> ""],
      [method |-> "POST", path |-> "/b", port |-> 9877,
       arguments |-> [k \in {"y"} |-> <<Bytes("4")>>],
       headers |-> [k \in {"X-Token"} |-> "t"],
       cookies |-> [k \in {"sid"} |-> "s1"],
       body |-> "payload"],
      [method |-> "HEAD", path |-> "/a", port |-> 9876,
       arguments |-> [k \in {"z"} |-> <<Bytes("5")>>],
       headers |-> [k \in {} |-> ""],
       cookies |-> [k \in {} |-> ""],
       body |-> ""] }

\* MainHandler.decode_argument (lines 80-82): bytes to text under the charset
\* of SERVER.request.
decode_argument(value, charset) == Str(value.v)

\* self.get_argument(key) (line 95): the last value given for the name, decoded.
get_argument(inp, key, charset) ==
    decode_argument(inp.arguments[key][Len(inp.arguments[key])], charset)

\* A slip in lines 93-95: line 93 is missing, the arguments are added to the
\* dict the previous request left.
Capture_merge_args(req, inp) ==
    [req EXCEPT !.args = [k \in DOMAIN req.args \cup DOMAIN inp.arguments |->
                             IF k \in DOMAIN inp.arguments
                             THEN get_argument(inp, k, req.charset.v)
                             ELSE req.args[k]],
                !.headers = inp.headers,
                !.path = Str(inp.path),
                !.method = Str(inp.method),
                !.cookies = inp.cookies,
                !.data = Bytes(inp.body)]

\* A slip in lines 93-101: the record is filled only while it is blank.
Capture_first_wins(req, inp) ==
    IF req.path.t /= "none" THEN req
    ELSE [req EXCEPT !.args = [k \in DOMAIN inp.arguments |->
                                  get_argument(inp, k, req.charset.v)],
                     !.headers = inp.headers,
                     !.path = Str(inp.path),
                     !.method = Str(inp.method),
                     !.cookies = inp.cookies,
                     !.data = Bytes(inp.body)]

\* Lines 93-101: the request record after the handler has stored this request.
Capture(req, inp) ==
    [req EXCEPT !.args = [k \in DOMAIN inp.arguments |->
                             get_argument(inp, k, req.charset.v)],
                !.headers = inp.headers,
                !.path = Str(inp.path),
                !.method = Str(inp.method),
                !.cookies = inp.cookies,
                !.data = Bytes(inp.body)]

----------------------------------------------------------------------------
(* The response under construction and the handler run of one connection. *)

\* The header names the model uses, in the canonical case the response's
\* header table keeps them in.
NormName(name) ==
    CASE name = "content-type" -> "Content-Type"
      [] name = "listen-port" -> "Listen-Port"
      [] OTHER -> name

\* The headers a response starts with, before the handler touches it.
InitialHeaders == [k \in {"Content-Type"} |-> "text/html; charset=UTF-8"]

\* A connection whose handler has not run a statement yet.
NewConn(inp) ==
    [inp |-> inp, pc |-> "Received", timer |-> 0, waited |-> 0,
     sleep |-> None, callback |-> None,
     status |-> 0, headers |-> InitialHeaders, cookies |-> <<>>, body |-> <<>>,
     finished |-> FALSE]

\* The outcomes of next() on an exhausted iterator inside the generator
\* (line 137): before PEP 479 the StopIteration ends the generator as if it had
\* returned, and finish() is never called; from Python 3.7 on it is turned
\* into a RuntimeError, which the framework answers with a 500 error page.
Builds == {"stop_iteration_ends_generator", "stop_iteration_is_runtime_error"}

\* The framework's answer to an exception raised by the handler: the response
\* built so far is discarded and a 500 page is sent.
Error500(c) ==
    [c EXCEPT !.pc = "Error500", !.status = 500, !.headers = InitialHeaders,
              !.cookies = <<>>, !.body = <<>>, !.finished = TRUE, !.timer = 0]

\* self.set_header(key, value) for each pair of the list (lines 115-117).
RECURSIVE SetHeaders(_, _)
SetHeaders(h, pairs) ==
    IF pairs = <<>> THEN h
    ELSE SetHeaders(DictSet(h, NormName(pairs[1][1]), pairs[1][2]), Tail(pairs))

\* The names added to headers_sent (line 117).
HeadersSent(pairs) == {pairs[i][1] : i \in 1..Len(pairs)}

\* A slip in lines 115-120: Listen-Port is set before the configured headers.
ResponseHeaders_port_first(h, pairs, port) ==
    LET h1 == DictSet(h, "Listen-Port", ToString(port))
        h2 == SetHeaders(h1, pairs)
    IN IF "Content-Type" \notin HeadersSent(pairs)
       THEN DictSet(h2, "Content-Type", "text/html; charset=" \o "utf-8")
       ELSE h2

\* Lines 115-126: the configured headers, then Listen-Port, then the default
\* Content-Type unless the configured list named Content-Type.
ResponseHeaders(h, pairs, port) ==
    LET h1 == SetHeaders(h, pairs)
        h2 == DictSet(h1, "Listen-Port", ToString(port))
    IN IF "Content-Type" \notin HeadersSent(pairs)
       THEN DictSet(h2, "Content-Type", "text/html; charset=" \o "utf-8")
       ELSE h2

\* A slip in line 137: the sequence is read without being advanced.
IterNext_stuck(it) == it

\* next(SERVER.timeout_iterator) (line 137) on an iterator that has an item
\* left: the iterator after the call.
IterNext(it) == [it EXCEPT !.idx = it.idx + 1]

\* self.add_header('Set-Cookie', '%s=%s' % (key, val)) for each pair (110-113).
SetCookies(pairs) == [i \in 1..Len(pairs) |-> pairs[i][1] \o "=" \o pairs[i][2]]

\* Lines 134-138: the post-write step.
PostWrite(c, it, build) ==
    IF it.t = "none"
    THEN [conn |-> [c EXCEPT !.pc = "Completed", !.finished = TRUE],
          iter |-> it, drew |-> FALSE]
    ELSE IF it.idx < Len(it.items)
    THEN [conn |-> [c EXCEPT !.pc = "FinalSleeping", !.timer = it.items[it.idx + 1],
                             !.waited = 0],
          iter |-> IterNext(it), drew |-> TRUE]
    ELSE [conn |-> IF build = "stop_iteration_ends_generator"
                   THEN [c EXCEPT !.pc = "Hung"]
                   ELSE Error500(c),
          iter |-> it, drew |-> TRUE]

\* A slip in line 110: the cookies are read with clear_once=False, a one-shot
\* cookie list is left for a later request.
Compose_peeks_cookies(c, once, resp, it, build) ==
    LET method == Lower(c.inp.method)
        code == get_param(once, resp, "code", method, TRUE)
        cookies == get_param(code.once, resp, "cookies", method, FALSE)
        headers == get_param(cookies.once, resp, "headers", method, TRUE)
        data == get_param(headers.once, resp, "data", method, TRUE)
    IN
    IF code.raised
    THEN [conn |-> Error500(c), once |-> code.once, iter |-> it, drew |-> FALSE]
    ELSE IF cookies.raised
    THEN [conn |-> Error500(c), once |-> cookies.once, iter |-> it, drew |-> FALSE]
    ELSE IF headers.raised
    THEN [conn |-> Error500(c), once |-> headers.once, iter |-> it, drew |-> FALSE]
    ELSE IF data.raised
    THEN [conn |-> Error500(c), once |-> data.once, iter |-> it, drew |-> FALSE]
    ELSE
      LET h3 == ResponseHeaders(c.headers, headers.value.v, c.inp.port)
          written == [c EXCEPT !.status = code.value.v,
                               !.cookies = SetCookies(cookies.value.v),
                               !.headers = h3,
                               !.body = <<IF data.value.t = "callable"
                                          THEN CallResult(data.value)
                                          ELSE data.value.v>>]
          post == PostWrite(written, it, build)
      IN [conn |-> post.conn, once |-> data.once, iter |-> post.iter,
          drew |-> post.drew]

\* Lines 107-138: the handler composes the response itself.
Compose(c, once, resp, it, build) ==
    LET method == Lower(c.inp.method)
        code == get_param(once, resp, "code", method, TRUE)
        cookies == get_param(code.once, resp, "cookies", method, TRUE)
        headers == get_param(cookies.once, resp, "headers", method, TRUE)
        data == get_param(headers.once, resp, "data", method, TRUE)
    IN
    IF code.raised
    THEN [conn |-> Error500(c), once |-> code.once, iter |-> it, drew |-> FALSE]
    ELSE IF cookies.raised
    THEN [conn |-> Error500(c), once |-> cookies.once, iter |-> it, drew |-> FALSE]
    ELSE IF headers.raised
    THEN [conn |-> Error500(c), once |-> headers.once, iter |-> it, drew |-> FALSE]
    ELSE IF data.raised
    THEN [conn |-> Error500(c), once |-> data.once, iter |-> it, drew |-> FALSE]
    ELSE
      LET h3 == ResponseHeaders(c.headers, headers.value.v, c.inp.port)
          written == [c EXCEPT !.status = code.value.v,
                               !.cookies = SetCookies(cookies.value.v),
                               !.headers = h3,
                               !.body = <<IF data.value.t = "callable"
                                          THEN CallResult(data.value)
                                          ELSE data.value.v>>]
          post == PostWrite(written, it, build)
      IN [conn |-> post.conn, once |-> data.once, iter |-> post.iter,
          drew |-> post.drew]

\* A slip in lines 103-109: the code is resolved before the callback test, a
\* delegated request consumes a one-shot code.
AfterSleep_resolves_code_first(c, once, resp, req, it, build) ==
    LET callback_name == CallbackName(Lower(c.inp.method))
        captured == Capture(req, c.inp)
    IN
    IF callback_name \in DOMAIN resp /\ resp[callback_name].t /= "none"
    THEN [conn |-> [c EXCEPT !.pc = "CallbackDelegated",
                             !.callback = resp[callback_name]],
          once |-> get_param(once, resp, "code", Lower(c.inp.method), TRUE).once,
          request |-> captured, iter |-> it, drew |-> FALSE]
    ELSE [request |-> captured] @@ Compose(c, once, resp, it, build)

\* Lines 93-138: what the handler does once its initial sleep, if any, is over.
AfterSleep(c, once, resp, req, it, build) ==
    LET callback_name == CallbackName(Lower(c.inp.method))
        captured == Capture(req, c.inp)
    IN
    IF callback_name \in DOMAIN resp /\ resp[callback_name].t /= "none"
    THEN [conn |-> [c EXCEPT !.pc = "CallbackDelegated",
                             !.callback = resp[callback_name]],
          once |-> once, request |-> captured, iter |-> it, drew |-> FALSE]
    ELSE [request |-> captured] @@ Compose(c, once, resp, it, build)

----------------------------------------------------------------------------
(* The state after TestServer.__init__ (lines 26-32): reset() has run, no      *)
(* iterator is set (line 22), nothing has been accepted.                       *)

NoIterator == [t |-> "none", items |-> <<>>, idx |-> 0]

\* iter(items): a list iterator at its start.
Iter(items) == [t |-> "iter", items |-> items, idx |-> 0]

Op(name, id) == [op |-> name, id |-> id, dirty |-> FALSE]

NoRet == [raised |-> FALSE, value |-> None, key |-> "", method |-> "",
          clear_once |-> FALSE, once |-> EmptyDict, response |-> EmptyDict]

\* A second TestServer that has not been constructed.
NoInstance == [constructed |-> FALSE, response |-> EmptyDict,
               response_once |-> EmptyDict]

NoSetup == [key |-> "", field |-> "", method |-> "", value |-> None, bare |-> FALSE]

Init ==
    /\ response = reset(BlankRequest).response
    /\ response_once = reset(BlankRequest).response_once
    /\ request = reset(BlankRequest).request
    /\ timeout_iterator = NoIterator
    /\ conns = <<>>
    /\ order = <<>>
    /\ drawn = <<>>
    /\ lastOp = Op("init", 0)
    /\ nops = 0
    /\ ret = NoRet
    /\ other = NoInstance
    /\ setup = NoSetup

----------------------------------------------------------------------------
(* What the test thread writes into the server. *)

\* server.response[key] = value
ResponseMenu ==
    { <<"code", Num(404)>>,
      <<"get.sleep", Num(2)>>,
      <<"post_callback", Callable("cb")>>,
      <<"headers", List(<< <<"Listen-Port", "1">>, <<"X-A", "a">> >>)>> }

\* server.response_once[key] = value
OnceMenu ==
    { <<"get.code", Num(500)>>,
      <<"sleep", Num(1)>>,
      <<"post.callback", Callable("cb_once")>> }

\* server.timeout_iterator = iter(items)
IterMenu == { <<1>>, <<2, 1>> }

SetResponse(key, value) ==
    /\ nops < MaxConfigOps
    /\ response' = DictSet(response, key, value)
    /\ nops' = nops + 1
    /\ lastOp' = Op("set", 0)
    /\ UNCHANGED <<response_once, request, timeout_iterator, conns, order, drawn, ret, setup, other>>

SetResponseOnce(key, value) ==
    /\ nops < MaxConfigOps
    /\ response_once' = DictSet(response_once, key, value)
    /\ nops' = nops + 1
    /\ lastOp' = Op("once", 0)
    /\ UNCHANGED <<response, request, timeout_iterator, conns, order, drawn, ret, setup, other>>

SetTimeoutIterator(items) ==
    /\ nops < MaxConfigOps
    /\ timeout_iterator' = Iter(items)
    /\ drawn' = <<>>
    /\ nops' = nops + 1
    /\ lastOp' = Op("iter", 0)
    /\ UNCHANGED <<response, response_once, request, conns, order, ret, setup, other>>

\* A slip in reset(): the duration sequence is dropped with the overrides.
Reset_clears_iterator ==
    /\ nops < MaxConfigOps
    /\ response' = reset(request).response
    /\ response_once' = reset(request).response_once
    /\ request' = reset(request).request
    /\ timeout_iterator' = NoIterator
    /\ nops' = nops + 1
    /\ lastOp' = [op |-> "reset", id |-> 0,
                  dirty |-> /\ response_once /= EmptyDict
                            /\ request /= BlankRequest]
    /\ order' = <<>>
    /\ UNCHANGED <<conns, drawn, ret, setup, other>>

\* server.reset()
Reset ==
    /\ nops < MaxConfigOps
    /\ response' = reset(request).response
    /\ response_once' = reset(request).response_once
    /\ request' = reset(request).request
    /\ nops' = nops + 1
    /\ lastOp' = [op |-> "reset", id |-> 0,
                  dirty |-> /\ response_once /= EmptyDict
                            /\ request /= BlankRequest]
    /\ order' = <<>>
    /\ UNCHANGED <<timeout_iterator, conns, drawn, ret, setup, other>>

----------------------------------------------------------------------------
(* The IOLoop: one step runs a handler from one suspension point to the next. *)

Replace(seq, i, c) == [seq EXCEPT ![i] = c]

\* The state after the handler of connection i has run lines 93-138.
RunAfterSleep(i, c, once, build) ==
    \E r \in {AfterSleep(c, once, response, request, timeout_iterator, build)} :
    /\ conns' = IF i > Len(conns) THEN Append(conns, r.conn)
                                  ELSE Replace(conns, i, r.conn)
    /\ response_once' = r.once
    /\ request' = r.request
    /\ timeout_iterator' = r.iter
    /\ order' = Append(order, i)
    /\ drawn' = IF r.drew THEN Append(drawn, i) ELSE drawn

\* A request arrives and its handler runs up to its first suspension
\* (lines 86-92, then lines 93-138 when there is no sleep). A verb that
\* MainHandler does not bind (lines 140-144) is answered 405 by the framework.
StartRequest(inp, build) ==
    /\ Len(conns) < MaxRequests
    /\ lastOp' = Op("start", Len(conns) + 1)
    /\ LET i == Len(conns) + 1
           method == Lower(inp.method)
           c == NewConn(inp)
           sleep == get_param(response_once, response, "sleep", method, TRUE)
       IN
       IF method \notin HandlerMethods
       THEN /\ conns' = Append(conns, [c EXCEPT !.pc = "MethodNotAllowed",
                                                !.status = 405, !.finished = TRUE])
            /\ UNCHANGED <<response_once, request, timeout_iterator, order, drawn>>
       ELSE IF sleep.raised
       THEN /\ conns' = Append(conns, Error500(c))
            /\ UNCHANGED <<response_once, request, timeout_iterator, order, drawn>>
       ELSE IF Truthy(sleep.value)
       THEN /\ conns' = Append(conns, [c EXCEPT !.pc = "Sleeping",
                                                !.sleep = sleep.value,
                                                !.timer = sleep.value.v])
            /\ response_once' = sleep.once
            /\ UNCHANGED <<request, timeout_iterator, order, drawn>>
       ELSE RunAfterSleep(i, [c EXCEPT !.sleep = sleep.value], sleep.once, build)
    /\ UNCHANGED <<response, nops, ret, setup, other>>

\* The timeout of line 91-92 fires: the handler resumes at line 93.
ResumeSleep(i, build) ==
    /\ i \in 1..Len(conns)
    /\ conns[i].pc = "Sleeping"
    /\ conns[i].timer = 0
    /\ RunAfterSleep(i, conns[i], response_once, build)
    /\ lastOp' = Op("resume", i)
    /\ UNCHANGED <<response, nops, ret, setup, other>>

\* The timeout of lines 135-137 fires: the handler resumes at line 138.
ResumeFinal(i) ==
    /\ i \in 1..Len(conns)
    /\ conns[i].pc = "FinalSleeping"
    /\ conns[i].timer = 0
    /\ conns' = Replace(conns, i, [conns[i] EXCEPT !.pc = "Completed",
                                                   !.finished = TRUE])
    /\ lastOp' = Op("finish", i)
    /\ UNCHANGED <<response, response_once, request, timeout_iterator, order,
                   drawn, nops, ret, setup, other>>

Suspended(c) == c.pc \in {"Sleeping", "FinalSleeping"}

\* A slip: the clock does not advance, no timeout ever becomes due.
Tick_clock_stopped ==
    /\ \E i \in 1..Len(conns) : Suspended(conns[i])
    /\ \A i \in 1..Len(conns) : Suspended(conns[i]) => conns[i].timer > 0
    /\ lastOp' = Op("tick", 0)
    /\ UNCHANGED <<response, response_once, request, timeout_iterator, conns,
                   order, drawn, nops, ret, setup, other>>

\* One unit of wall time passes. The loop runs the timeouts that are due
\* before it waits again.
Tick ==
    /\ \E i \in 1..Len(conns) : Suspended(conns[i])
    /\ \A i \in 1..Len(conns) : Suspended(conns[i]) => conns[i].timer > 0
    /\ conns' = [i \in 1..Len(conns) |->
                    IF Suspended(conns[i])
                    THEN [conns[i] EXCEPT !.timer = @ - 1, !.waited = @ + 1]
                    ELSE conns[i]]
    /\ lastOp' = Op("tick", 0)
    /\ UNCHANGED <<response, response_once, request, timeout_iterator, order,
                   drawn, nops, ret, setup, other>>

Next ==
    \/ \E kv \in ResponseMenu : SetResponse(kv[1], kv[2])
    \/ \E kv \in OnceMenu : SetResponseOnce(kv[1], kv[2])
    \/ \E items \in IterMenu : SetTimeoutIterator(items)
    \/ Reset
    \/ \E inp \in ReqInputs, build \in Builds : StartRequest(inp, build)
    \/ \E i \in 1..MaxRequests, build \in Builds : ResumeSleep(i, build)
    \/ \E i \in 1..MaxRequests : ResumeFinal(i)
    \/ Tick

Spec == Init /\ [][Next]_vars

----------------------------------------------------------------------------
(* Requests issued one at a time: the test thread configures the server and   *)
(* sends the next request only while no handler is suspended.                 *)

Quiet == \A i \in 1..Len(conns) : ~Suspended(conns[i])

NextSeq ==
    \/ Quiet /\ \E kv \in ResponseMenu : SetResponse(kv[1], kv[2])
    \/ Quiet /\ \E kv \in OnceMenu : SetResponseOnce(kv[1], kv[2])
    \/ Quiet /\ \E items \in IterMenu : SetTimeoutIterator(items)
    \/ Quiet /\ Reset
    \/ Quiet /\ \E inp \in ReqInputs, build \in Builds : StartRequest(inp, build)
    \/ \E i \in 1..MaxRequests, build \in Builds : ResumeSleep(i, build)
    \/ \E i \in 1..MaxRequests : ResumeFinal(i)
    \/ Tick

SpecSeq == Init /\ [][NextSeq]_vars

----------------------------------------------------------------------------
(* A server whose only sleep is response['get.sleep'], set before serving.    *)

SleepDurations == {1, 2, 3}

InitSleep ==
    /\ \E d \in SleepDurations :
          response = DictSet(reset(BlankRequest).response, "get.sleep", Num(d))
    /\ response_once = reset(BlankRequest).response_once
    /\ request = reset(BlankRequest).request
    /\ timeout_iterator = NoIterator
    /\ conns = <<>>
    /\ order = <<>>
    /\ drawn = <<>>
    /\ lastOp = Op("set", 0)
    /\ nops = 1
    /\ ret = NoRet
    /\ other = NoInstance
    /\ setup = NoSetup

NextServe ==
    \/ \E inp \in ReqInputs, build \in Builds : StartRequest(inp, build)
    \/ \E i \in 1..MaxRequests, build \in Builds : ResumeSleep(i, build)
    \/ Tick

SpecSleep == InitSleep /\ [][NextServe]_vars

----------------------------------------------------------------------------
(* A server given, before serving, optionally a per-method value for one      *)
(* field, optionally a callback for the method, optionally a one-shot         *)
(* override under the bare field name, and then a one-shot override under     *)
(* "method.field"; no configuration change is made afterwards.                *)

\* The value the one-shot override under "method.field" carries, per field.
OnceValue(field) ==
    CASE field = "code" -> Num(500)
      [] field = "data" -> Str("once")
      [] field = "headers" -> List(<< <<"X-Once", "1">> >>)
      [] field = "cookies" -> List(<< <<"once", "1">> >>)
      [] field = "callback" -> Callable("cb_once")
      [] OTHER -> Num(1)

\* The value the one-shot override under the bare field name carries.
BareValue(field) ==
    CASE field = "code" -> Num(302)
      [] field = "data" -> Str("bare")
      [] field = "headers" -> List(<< <<"X-Bare", "1">> >>)
      [] field = "cookies" -> List(<< <<"bare", "1">> >>)
      [] field = "callback" -> Callable("cb_bare")
      [] OTHER -> Num(3)

\* The per-method value, per field.
MethodValue(field) ==
    CASE field = "code" -> Num(201)
      [] field = "data" -> Str("hello")
      [] field = "headers" -> List(<< <<"X-A", "a">> >>)
      [] field = "cookies" -> List(<< <<"sid", "1">> >>)
      [] field = "callback" -> Callable("cb_dotted")
      [] OTHER -> Num(2)

SetupMethods == {"get", "post"}

Count(b) == IF b THEN 1 ELSE 0

InitOnce ==
    /\ \E field \in Fields, method \in SetupMethods,
          per_method \in BOOLEAN, with_callback \in BOOLEAN, bare \in BOOLEAN :
          LET r0 == reset(BlankRequest).response
              r1 == IF per_method
                    THEN DictSet(r0, MethodKey(method, field), MethodValue(field))
                    ELSE r0
              r2 == IF with_callback
                    THEN DictSet(r1, CallbackName(method), Callable("cb"))
                    ELSE r1
              o0 == reset(BlankRequest).response_once
              o1 == IF bare THEN DictSet(o0, field, BareValue(field)) ELSE o0
          IN
          /\ response = r2
          /\ response_once = DictSet(o1, MethodKey(method, field), OnceValue(field))
          /\ setup = [key |-> MethodKey(method, field), field |-> field,
                      method |-> method, value |-> OnceValue(field), bare |-> bare]
          /\ nops = 1 + Count(per_method) + Count(with_callback) + Count(bare)
    /\ request = reset(BlankRequest).request
    /\ timeout_iterator = NoIterator
    /\ conns = <<>>
    /\ order = <<>>
    /\ drawn = <<>>
    /\ lastOp = Op("once", 0)
    /\ ret = NoRet
    /\ other = NoInstance

SpecOnce == InitOnce /\ [][NextServe]_vars

----------------------------------------------------------------------------
(* get_param as a function: any two dicts over the keys of two fields and two *)
(* methods, each key absent or holding a value that names its dict and key,   *)
(* and the test thread calling get_param directly.                            *)

ResolveFields == {"code", "sleep"}
ResolveMethods == {"get", "post"}
ResolveKeys ==
    ResolveFields \cup {MethodKey(m, f) : m \in ResolveMethods, f \in ResolveFields}

\* All dicts over a subset of ResolveKeys, each value naming its dict and key.
Dicts(name) ==
    {[k \in K |-> Str(name \o "[" \o k \o "]")] : K \in SUBSET ResolveKeys}

InitResolve ==
    /\ response \in Dicts("response")
    /\ response_once \in Dicts("response_once")
    /\ request = reset(BlankRequest).request
    /\ timeout_iterator = NoIterator
    /\ conns = <<>>
    /\ order = <<>>
    /\ drawn = <<>>
    /\ lastOp = Op("init", 0)
    /\ nops = 0
    /\ ret = NoRet
    /\ other = NoInstance
    /\ setup = NoSetup

\* server.get_param(key, method, clear_once), called by the test thread.
CallGetParam(key, method, clear_once) ==
    LET r == get_param(response_once, response, key, method, clear_once) IN
    /\ ret' = [raised |-> r.raised, value |-> r.value, key |-> key,
               method |-> method, clear_once |-> clear_once,
               once |-> response_once, response |-> response]
    /\ response_once' = r.once
    /\ lastOp' = Op("get_param", 0)
    /\ UNCHANGED <<response, request, timeout_iterator, conns, order, drawn, nops,
                   setup, other>>

NextResolve ==
    \E key \in ResolveFields, method \in ResolveMethods, clear_once \in BOOLEAN :
        CallGetParam(key, method, clear_once)

SpecResolve == InitResolve /\ [][NextResolve]_vars

----------------------------------------------------------------------------
(* Vocabulary of the properties. *)

\* The request record a test reads after the handler has stored request inp.
Recorded(inp) ==
    [args |-> [k \in DOMAIN inp.arguments |->
                  [t |-> "str", v |-> inp.arguments[k][Len(inp.arguments[k])].v]],
     headers |-> inp.headers,
     cookies |-> inp.cookies,
     path |-> [t |-> "str", v |-> inp.path],
     method |-> [t |-> "str", v |-> inp.method],
     charset |-> [t |-> "str", v |-> "utf-8"],
     data |-> [t |-> "bytes", v |-> inp.body]]

\* The connection's verb is one method_handler is bound to.
Handled(c) == c.inp.method \in {"GET", "POST", "PUT", "PATCH", "DELETE"}

\* The handler run of the connection has ended (or will never go on).
Terminal(c) == c.pc \in {"Completed", "CallbackDelegated", "Hung", "Error500"}

\* The handler has written nothing into the response and has not finished it.
Untouched(c) ==
    /\ c.status = 0
    /\ c.headers = [k \in {"Content-Type"} |-> "text/html; charset=UTF-8"]
    /\ c.cookies = <<>>
    /\ c.body = <<>>
    /\ ~c.finished

PortText(port) == IF port = 9876 THEN "9876" ELSE "9877"

CarriesListenPort(c) ==
    /\ "Listen-Port" \in DOMAIN c.headers
    /\ c.headers["Listen-Port"] = PortText(c.inp.port)

Ids == 1..Len(conns)

SetMin(S) == CHOOSE x \in S : \A y \in S : x <= y
SetMax(S) == CHOOSE x \in S : \A y \in S : x >= y
Range(seq) == {seq[k] : k \in 1..Len(seq)}

----------------------------------------------------------------------------
(* C1: a one-shot override under "M.F" is observed by exactly one request     *)
(* with method M, the next such request observes the next tier.               *)

\* The handler run has passed the statement that reads the field: line 89 for
\* sleep, line 104 for the callback, lines 109-128 for the others.
Resolved(c, field) ==
    CASE field = "sleep" -> c.pc \notin {"Received", "MethodNotAllowed"}
      [] field = "callback" -> c.pc \notin {"Received", "MethodNotAllowed", "Sleeping"}
      [] OTHER -> c.pc \in {"Completed", "FinalSleeping", "Hung"}

\* The request was answered (or delayed, or delegated) according to the value.
Observes(c, field, value) ==
    CASE field = "code" -> value.t = "num" /\ c.status = value.v
      [] field = "data" -> value.t = "str" /\ c.body = <<value.v>>
      [] field = "cookies" ->
            c.cookies = [k \in 1..Len(value.v) |->
                            value.v[k][1] \o "=" \o value.v[k][2]]
      [] field = "headers" ->
            \A k \in 1..Len(value.v) :
                /\ value.v[k][1] \in DOMAIN c.headers
                /\ c.headers[value.v[k][1]] = value.v[k][2]
      [] field = "sleep" -> c.sleep = value
      [] OTHER -> c.callback = value

\* The per-method value if one is set, else the default.
NextTier(field, method) ==
    IF (method \o "." \o field) \in DOMAIN response
    THEN response[method \o "." \o field]
    ELSE response[field]

\* The requests with the method of the override that have read its field, and
\* the position of one of them among them.
Resolvers ==
    {i \in Ids : /\ Lower(conns[i].inp.method) = setup.method
                 /\ Resolved(conns[i], setup.field)}

Position(i) == Cardinality({j \in Resolvers : j <= i})

\* C1 as claimed, for all six fields: of the requests with method M that have
\* read F, the first observed the one-shot value, and every later one the
\* per-method value if one is set, else the default.
C1_OneShotObservedOnce ==
    (setup.key /= "") =>
        \A i \in Resolvers :
            IF Position(i) = 1
            THEN Observes(conns[i], setup.field, setup.value)
            ELSE /\ Observes(conns[i], setup.field,
                             NextTier(setup.field, setup.method))
                 /\ ~Observes(conns[i], setup.field, setup.value)

\* The requests of any handled method that have read the field.
AllResolvers ==
    {i \in Ids : Handled(conns[i]) /\ Resolved(conns[i], setup.field)}

\* The value request i, with the method of the override, is to observe: the
\* one-shot "M.F" value if it is the first of its method to read F; the bare
\* one-shot "F" value if one was pending and no request before i, other than
\* that first one, has read F; else the per-method value if one is set, else
\* the default.
Expected(i) ==
    IF i = SetMin(Resolvers) THEN setup.value
    ELSE IF setup.bare /\ i = SetMin(AllResolvers \ {SetMin(Resolvers)})
    THEN BareValue(setup.field)
    ELSE NextTier(setup.field, setup.method)

\* C1 as amended: for the five fields the handler resolves through get_param,
\* the first request with method M that resolves F observes the one-shot
\* value and no later one does; a later one observes the next tier. The
\* one-shot entry "M.callback" is never read: no request is handed to it and
\* it stays in response_once.
C1_OneShotObservedOnce_ResolvedFields ==
    (setup.key /= "") =>
        IF setup.field = "callback"
        THEN /\ setup.key \in DOMAIN response_once
             /\ \A i \in Ids : conns[i].callback /= setup.value
        ELSE \A i \in Resolvers :
                /\ Observes(conns[i], setup.field, Expected(i))
                /\ \A v \in {setup.value, BareValue(setup.field)} \ {Expected(i)} :
                      ~Observes(conns[i], setup.field, v)
                /\ setup.key \notin DOMAIN response_once

\* Two requests with the method of a one-shot code override were composed
\* while a per-method code was set: the second one is past the override.
C1_Witness_SecondRequestPastOverride ==
    /\ setup.field = "code"
    /\ ~setup.bare
    /\ (setup.method \o ".code") \in DOMAIN response
    /\ Cardinality(Resolvers) = 2
    /\ \A i \in Resolvers : conns[i].pc = "Completed"

----------------------------------------------------------------------------
(* C2: get_param returns the value of the first tier that holds the key, in   *)
(* the order one-shot "M.F", one-shot "F", per-method "M.F", default "F", and *)
(* raises, leaving both dicts as they were, exactly when no tier holds it.    *)

\* The four tiers of the last get_param call, as (dict, key) in lookup order,
\* over the dicts as they were before the call.
Tiers ==
    << [d |-> ret.once, k |-> ret.method \o "." \o ret.key],
       [d |-> ret.once, k |-> ret.key],
       [d |-> ret.response, k |-> ret.method \o "." \o ret.key],
       [d |-> ret.response, k |-> ret.key] >>

Holding == {j \in 1..4 : Tiers[j].k \in DOMAIN Tiers[j].d}

\* C2: after every direct get_param call, the result is the value of the
\* first holding tier; the call raised exactly when no tier held the key, and
\* then response_once and response are what they were.
C2_ResolutionOrder ==
    (ret.key /= "") =>
        IF Holding = {}
        THEN /\ ret.raised
             /\ response_once = ret.once
             /\ response = ret.response
        ELSE /\ ~ret.raised
             /\ ret.value = Tiers[SetMin(Holding)].d[Tiers[SetMin(Holding)].k]

\* A call answered by the bare one-shot entry while the per-method and the
\* default tier held a value too.
C2_Witness_BareOneShotBeforeStore ==
    /\ ret.key /= ""
    /\ Holding = {2, 3, 4}
    /\ ret.value = ret.once[ret.key]
    /\ ~ret.raised

----------------------------------------------------------------------------
(* C3: which request the shared record holds while requests overlap. *)

\* C3 as claimed: once a request has been captured, the record holds the data
\* of the request that was started last.
C3_HoldsMostRecentlyStarted ==
    (order /= <<>>) =>
        request = Recorded(conns[SetMax({i \in Ids : Handled(conns[i])})].inp)

\* C3 as amended: once a request has been captured and until the next
\* reset(), the record holds the data of the request that reached line 93
\* last, i.e. whose handler ended its initial sleep last.
C3_HoldsMostRecentlyCaptured ==
    (order /= <<>>) => request = Recorded(conns[order[Len(order)]].inp)

\* Two requests were captured in the reverse of the order they were started in.
C3_Witness_CapturedOutOfStartOrder ==
    /\ Len(order) >= 2
    /\ order[Len(order)] < order[Len(order) - 1]
    /\ conns[order[Len(order)]].inp /= conns[order[Len(order) - 1]].inp

----------------------------------------------------------------------------
(* C4: requests issued one at a time. *)

\* C4: in every step in which the handler run of a request ends, the record
\* holds exactly that request's args, headers, cookies, path, method and body.
C4_RecordIsThatRequest ==
    [][\A i \in 1..Len(conns') :
          ( /\ Handled(conns'[i])
            /\ Terminal(conns'[i])
            /\ (i > Len(conns) \/ ~Terminal(conns[i])) )
          => request' = Recorded(conns'[i].inp)]_vars

\* A second request has ended that lacks an argument name the first carried.
C4_Witness_SecondRequestDropsArgument ==
    /\ Len(conns) = 2
    /\ Terminal(conns[1]) /\ Terminal(conns[2])
    /\ order = <<1, 2>>
    /\ DOMAIN conns[1].inp.arguments \ DOMAIN conns[2].inp.arguments /= {}
    /\ DOMAIN request.args = DOMAIN conns[2].inp.arguments

----------------------------------------------------------------------------
(* C5: a configured per-method callback takes over the response. *)

\* The per-method callback configured for the connection's method.
ConfiguredCallback(c) ==
    IF (Lower(c.inp.method) \o "_callback") \in DOMAIN response
    THEN response[Lower(c.inp.method) \o "_callback"]
    ELSE [t |-> "none", v |-> "None"]

\* C5: in every step in which a handler passes line 93, the request is
\* captured; if a callback is configured for its method the request is handed
\* to that callback with the response untouched and unfinished, and otherwise
\* the handler composes the response itself.
C5_CallbackBypassesComposition ==
    [][\A i \in 1..Len(conns') :
          (order' = Append(order, i)) =>
              /\ request' = Recorded(conns'[i].inp)
              /\ IF ConfiguredCallback(conns'[i]).t /= "none"
                 THEN /\ conns'[i].pc = "CallbackDelegated"
                      /\ conns'[i].callback = ConfiguredCallback(conns'[i])
                      /\ Untouched(conns'[i])
                 ELSE /\ conns'[i].pc \in {"Completed", "FinalSleeping", "Hung",
                                           "Error500"}
                      /\ conns'[i].callback.t = "none"
                      /\ conns'[i].status /= 0
                      /\ (conns'[i].pc /= "Error500" =>
                             /\ conns'[i].body /= <<>>
                             /\ "Listen-Port" \in DOMAIN conns'[i].headers)]_vars

\* With a callback configured for post, a POST was delegated and a GET was
\* composed by the handler.
C5_Witness_DelegatedAndComposed ==
    \E i, j \in Ids :
        /\ conns[i].pc = "CallbackDelegated" /\ conns[i].inp.method = "POST"
        /\ conns[j].pc = "Completed" /\ conns[j].inp.method = "GET"
        /\ i < j
        /\ "post_callback" \in DOMAIN response

----------------------------------------------------------------------------
(* C6: the Listen-Port header. *)

\* C6 as claimed: every response to a request the handler processed, the
\* callback-delegated ones included, carries Listen-Port with the port of the
\* accepting listener.
C6_EveryResponseCarriesListenPort ==
    \A i \in Ids :
        conns[i].pc \in {"Completed", "CallbackDelegated"}
            => CarriesListenPort(conns[i])

\* C6 as amended: every response the handler composes itself carries
\* Listen-Port with the port of the accepting listener.
C6_ComposedResponseCarriesListenPort ==
    \A i \in Ids :
        conns[i].pc \in {"Completed", "FinalSleeping", "Hung"}
            => CarriesListenPort(conns[i])

\* Responses were composed on both ports under a configured header list that
\* names Listen-Port itself.
C6_Witness_ConfiguredListenPortOverridden ==
    \E i, j \in Ids :
        /\ conns[i].pc = "Completed" /\ conns[j].pc = "Completed"
        /\ conns[i].inp.port /= conns[j].inp.port
        /\ "X-A" \in DOMAIN conns[i].headers
        /\ "X-A" \in DOMAIN conns[j].headers

----------------------------------------------------------------------------
(* C7, C8: the duration sequence of timeout_iterator. *)

Items == timeout_iterator.items

\* C7: the k-th request to reach the post-write step since the sequence was
\* set is suspended for the k-th duration and finished only after it; every
\* such request takes one value, none is skipped and none is used twice.
C7_KthRequestSleepsKthDuration ==
    /\ \A k \in 1..Len(drawn) :
          k <= Len(Items) =>
              /\ conns[drawn[k]].pc \in {"FinalSleeping", "Completed"}
              /\ conns[drawn[k]].timer + conns[drawn[k]].waited = Items[k]
              /\ conns[drawn[k]].pc = "FinalSleeping" => ~conns[drawn[k]].finished
              /\ conns[drawn[k]].pc = "Completed" =>
                    /\ conns[drawn[k]].waited = Items[k]
                    /\ conns[drawn[k]].finished
    /\ timeout_iterator.idx = IF Len(drawn) <= Len(Items) THEN Len(drawn)
                              ELSE Len(Items)
    /\ \A k1, k2 \in 1..Len(drawn) : drawn[k1] = drawn[k2] => k1 = k2

\* Two requests are suspended after their write at the same time, the first
\* for the first duration and the second for the second.
C7_Witness_TwoConcurrentFinalSleeps ==
    /\ Len(drawn) = 2
    /\ Items = <<2, 1>>
    /\ conns[drawn[1]].pc = "FinalSleeping" /\ conns[drawn[1]].timer = 2
    /\ conns[drawn[2]].pc = "FinalSleeping" /\ conns[drawn[2]].timer = 1

\* C8 as claimed: a request that reaches the post-write step when the sequence
\* has no entry left ends in an explicit error; it is neither finished as a
\* normal response nor left unfinished.
C8_ExhaustionIsExplicitError ==
    \A k \in 1..Len(drawn) :
        k > Len(Items) => conns[drawn[k]].pc = "Error500"

----------------------------------------------------------------------------
(* C9: a sleep configured for get only. *)

\* C9: a GET is either suspended, not captured and with nothing written, or
\* was completed after the whole configured sleep; a POST is never suspended
\* and is completed in the step in which it arrives.
C9_SleepDelaysOnlyGet ==
    \A i \in Ids :
        /\ conns[i].inp.method = "POST" =>
              /\ conns[i].pc = "Completed"
              /\ conns[i].waited = 0
        /\ conns[i].inp.method = "GET" =>
              \/ /\ conns[i].pc = "Sleeping"
                 /\ i \notin Range(order)
                 /\ Untouched(conns[i])
              \/ /\ conns[i].pc = "Completed"
                 /\ i \in Range(order)
                 /\ conns[i].waited = response["get.sleep"].v

\* A POST that arrived after a GET is completed while the GET is suspended.
C9_Witness_PostCompletedWhileGetSleeps ==
    \E i, j \in Ids :
        /\ i < j
        /\ conns[i].inp.method = "GET" /\ conns[i].pc = "Sleeping"
        /\ conns[j].inp.method = "POST" /\ conns[j].pc = "Completed"
        /\ request = Recorded(conns[j].inp)

----------------------------------------------------------------------------
(* C10: reset(). *)

\* C10: whatever the state reset() is called in, it leaves the six defaults,
\* no per-method override, no one-shot override and the blank request record.
C10_ResetRestoresDefaults ==
    (lastOp.op = "reset") =>
        /\ response = [code |-> [t |-> "num", v |-> 200],
                       data |-> [t |-> "str", v |-> ""],
                       headers |-> [t |-> "list", v |-> <<>>],
                       cookies |-> [t |-> "list", v |-> <<>>],
                       callback |-> [t |-> "none", v |-> "None"],
                       sleep |-> [t |-> "none", v |-> "None"]]
        /\ response_once = <<>>
        /\ request = [args |-> <<>>,
                      headers |-> <<>>,
                      cookies |-> [t |-> "none", v |-> "None"],
                      path |-> [t |-> "none", v |-> "None"],
                      method |-> [t |-> "none", v |-> "None"],
                      charset |-> [t |-> "str", v |-> "utf-8"],
                      data |-> [t |-> "none", v |-> "None"]]

\* reset() was called while a one-shot override was pending and the record
\* held a request.
C10_Witness_ResetOfUsedServer ==
    lastOp.op = "reset" /\ lastOp.dirty

----------------------------------------------------------------------------
(* C11: the four response fields always resolve. *)

ResponseFields == {"code", "data", "headers", "cookies"}

\* C11: in every state reached from construction by set-default,
\* set-per-method, set-one-shot, reset() and requests, get_param for code,
\* data, headers and cookies raises for no method, with or without clearing.
C11_ResponseFieldsAlwaysResolve ==
    \A key \in ResponseFields, method \in methods, clear_once \in BOOLEAN :
        ~get_param(response_once, response, key, method, clear_once).raised

\* After a reset() and a one-shot override that a request has since consumed,
\* a second request was composed from the defaults.
C11_Witness_ComposedAfterResetAndOneShot ==
    /\ Len(order) = 2
    /\ nops = MaxConfigOps
    /\ response = DefaultResponse
    /\ response_once = EmptyDict
    /\ conns[order[1]].pc = "Completed" /\ conns[order[1]].status = 500
    /\ conns[order[2]].pc = "Completed" /\ conns[order[2]].status = 200

----------------------------------------------------------------------------
(* C12: the verbs the server answers. *)

\* C12 as claimed: a request with any of the nine verbs of TestServer.methods
\* is processed by method_handler: the framework does not turn it away with
\* 405 Method Not Allowed.
C12_EveryVerbIsHandled ==
    \A i \in Ids :
        Lower(conns[i].inp.method) \in methods =>
            /\ conns[i].pc /= "MethodNotAllowed"
            /\ conns[i].status /= 405

----------------------------------------------------------------------------
(* C13: the response the handler composes. A server given, before serving,    *)
(* a code, a cookie list, a header list and a body, either as defaults or as  *)
(* per-method values for get, and optionally a default sleep; no               *)
(* configuration change is made afterwards.                                    *)

CodeChoices == {Num(201), Num(404)}
CookieChoices == {List(<<>>), List(<< <<"a", "1">>, <<"b", "2">> >>)}
HeaderChoices ==
    { List(<<>>),
      List(<< <<"X-A", "a">>, <<"X-B", "b">> >>),
      List(<< <<"X-A", "a">>, <<"X-A", "b">> >>),
      List(<< <<"Content-Type", "application/json">> >>),
      List(<< <<"content-type", "application/json">> >>) }
DataChoices == {Str("hello"), Callable("body")}

InitCompose ==
    /\ \E code \in CodeChoices, cookies \in CookieChoices,
          headers \in HeaderChoices, data \in DataChoices,
          per_method \in BOOLEAN, sleep \in {None, Num(1)} :
          LET prefix == IF per_method THEN "get." ELSE ""
              r0 == reset(BlankRequest).response
              r1 == DictSet(r0, prefix \o "code", code)
              r2 == DictSet(r1, prefix \o "cookies", cookies)
              r3 == DictSet(r2, prefix \o "headers", headers)
              r4 == DictSet(r3, prefix \o "data", data)
          IN /\ response = DictSet(r4, "sleep", sleep)
             /\ nops = 4 + Count(sleep /= None)
    /\ response_once = reset(BlankRequest).response_once
    /\ request = reset(BlankRequest).request
    /\ timeout_iterator = NoIterator
    /\ conns = <<>>
    /\ order = <<>>
    /\ drawn = <<>>
    /\ lastOp = Op("set", 0)
    /\ ret = NoRet
    /\ other = NoInstance
    /\ setup = NoSetup

SpecCompose == InitCompose /\ [][NextServe]_vars

\* The response has been composed by the handler (lines 107-132 have run).
Composed(c) == c.pc \in {"Completed", "FinalSleeping", "Hung"}

\* The pairs of a header list that set the Content-Type header.
ContentTypePairs(pairs) ==
    {k \in 1..Len(pairs) : NormName(pairs[k][1]) = "Content-Type"}

\* C13 as claimed: a composed response has the configured code as status, one
\* Set-Cookie value "name=value" per configured cookie pair in order, the
\* value of every configured header pair (of the last pair, for a name given
\* twice; Listen-Port excepted, which the handler sets itself), the configured
\* body, or the result of calling it, and as Content-Type the configured value
\* when a configured pair sets that header and text/html; charset=utf-8 else.
C13_ComposedResponseShape ==
    \A i \in Ids :
        Composed(conns[i]) =>
            LET c == conns[i]
                method == Lower(c.inp.method)
                code == NextTier("code", method)
                cookies == NextTier("cookies", method).v
                pairs == NextTier("headers", method).v
                data == NextTier("data", method)
            IN
            /\ c.status = code.v
            /\ c.cookies = [k \in 1..Len(cookies) |->
                               cookies[k][1] \o "=" \o cookies[k][2]]
            /\ \A k \in 1..Len(pairs) :
                  ( /\ NormName(pairs[k][1]) /= "Listen-Port"
                    /\ \A j \in (k + 1)..Len(pairs) :
                          NormName(pairs[j][1]) /= NormName(pairs[k][1]) )
                  => /\ NormName(pairs[k][1]) \in DOMAIN c.headers
                     /\ c.headers[NormName(pairs[k][1])] = pairs[k][2]
            /\ c.body = <<IF data.t = "callable" THEN data.v \o "()" ELSE data.v>>
            /\ c.headers["Content-Type"] =
                  IF ContentTypePairs(pairs) /= {}
                  THEN pairs[SetMax(ContentTypePairs(pairs))][2]
                  ELSE "text/html; charset=utf-8"

----------------------------------------------------------------------------
(* Requests in flight at once over pending one-shot overrides. A server       *)
(* given, before serving, any subset of a menu of one-shot overrides,         *)
(* optionally a default sleep, optionally a callback for post and optionally  *)
(* a duration sequence with one entry per request; no configuration change    *)
(* is made afterwards.                                                        *)

\* server.response_once[key] = value, each value unlike every other value of
\* its field.
OneShotMenu ==
    [k \in {"get.code", "code", "data", "headers", "cookies", "sleep"} |->
        CASE k = "get.code" -> Num(500)
          [] k = "code" -> Num(302)
          [] k = "data" -> Str("once")
          [] k = "headers" -> List(<< <<"X-Once", "1">> >>)
          [] k = "cookies" -> List(<< <<"once", "1">> >>)
          [] OTHER -> Num(2)]

\* The field a key of the menu overrides.
FieldOf(k) == IF k = "get.code" THEN "code" ELSE k

\* The methods a key of the menu applies to.
MethodsOf(k) == IF k = "get.code" THEN {"get"} ELSE HandlerMethods

InitMix ==
    /\ \E K \in SUBSET DOMAIN OneShotMenu, sleep \in {None, Num(1)},
          with_callback \in BOOLEAN, with_iterator \in BOOLEAN :
          LET r0 == reset(BlankRequest).response
              r1 == DictSet(r0, "sleep", sleep)
              o0 == reset(BlankRequest).response_once
          IN
          /\ response = IF with_callback
                        THEN DictSet(r1, CallbackName("post"), Callable("cb"))
                        ELSE r1
          /\ response_once = [k \in DOMAIN o0 \cup K |-> OneShotMenu[k]]
          /\ setup = [key |-> "", field |-> "", method |-> "", value |-> None,
                      bare |-> FALSE, once |-> [k \in K |-> OneShotMenu[k]]]
          /\ timeout_iterator = IF with_iterator
                                THEN Iter([k \in 1..MaxRequests |-> 1])
                                ELSE NoIterator
          /\ nops = Cardinality(K) + Count(sleep /= None) + Count(with_callback)
                    + Count(with_iterator)
    /\ request = reset(BlankRequest).request
    /\ conns = <<>>
    /\ order = <<>>
    /\ drawn = <<>>
    /\ lastOp = Op("once", 0)
    /\ ret = NoRet
    /\ other = NoInstance

NextRun ==
    \/ \E inp \in ReqInputs, build \in Builds : StartRequest(inp, build)
    \/ \E i \in 1..MaxRequests, build \in Builds : ResumeSleep(i, build)
    \/ \E i \in 1..MaxRequests : ResumeFinal(i)
    \/ Tick

SpecMix == InitMix /\ [][NextRun]_vars

----------------------------------------------------------------------------
(* C14: consumption of a one-shot entry by requests in flight at once. *)

\* The requests that were answered (or delayed) according to the entry under
\* key k.
Observers(k) ==
    {i \in Ids : /\ Handled(conns[i])
                 /\ Lower(conns[i].inp.method) \in MethodsOf(k)
                 /\ Resolved(conns[i], FieldOf(k))
                 /\ Observes(conns[i], FieldOf(k), setup.once[k])}

\* C14: whatever the order in which the suspended requests were resumed, each
\* one-shot entry has been observed by at most one request, and it is in
\* response_once exactly as long as no request has observed it.
C14_OneShotConsumedAtomically ==
    \A k \in DOMAIN setup.once :
        /\ Cardinality(Observers(k)) <= 1
        /\ (k \in DOMAIN response_once) <=> (Observers(k) = {})

\* Two requests were suspended at the same time and resumed in the reverse of
\* the order they arrived in: the later one took the one-shot code, the
\* earlier one, resumed after it, got the default.
C14_Witness_LaterRequestTookOverride ==
    /\ "code" \in DOMAIN setup.once
    /\ order = <<2, 1>>
    /\ conns[1].sleep = Num(2) /\ conns[2].sleep = Num(1)
    /\ Composed(conns[1]) /\ conns[1].status = 200
    /\ Composed(conns[2]) /\ conns[2].status = 302

----------------------------------------------------------------------------
(* C15: what a get_param call removes. *)

\* The one-shot key the last get_param call was answered from, if any, over
\* response_once as it was before the call.
OneShotRead ==
    IF (ret.method \o "." \o ret.key) \in DOMAIN ret.once
    THEN {ret.method \o "." \o ret.key}
    ELSE IF ret.key \in DOMAIN ret.once THEN {ret.key} ELSE {}

\* C15: after every direct get_param call, response is what it was, and
\* response_once is what it was less, when clear_once was true, the one
\* one-shot entry whose value the call returned; a call answered by response,
\* a call that raised and a call with clear_once false removed nothing.
C15_RemovesOnlyEntryReturned ==
    (ret.key /= "") =>
        LET removed == IF ret.clear_once THEN OneShotRead ELSE {} IN
        /\ response = ret.response
        /\ DOMAIN response_once = DOMAIN ret.once \ removed
        /\ \A k \in DOMAIN response_once : response_once[k] = ret.once[k]
        /\ \A k \in removed : ret.value = ret.once[k]
        /\ Cardinality(removed) <= 1

\* Both one-shot "M.F" and one-shot "F" existed: the call returned and removed
\* "M.F", and "F" is still there.
C15_Witness_BareEntrySurvives ==
    /\ ret.key /= ""
    /\ ret.clear_once
    /\ {ret.method \o "." \o ret.key, ret.key} \subseteq DOMAIN ret.once
    /\ ret.key \in DOMAIN response_once
    /\ (ret.method \o "." \o ret.key) \notin DOMAIN response_once
    /\ ret.value = ret.once[ret.method \o "." \o ret.key]

----------------------------------------------------------------------------
(* C16: every request the handler is invoked for is completed. A server       *)
(* given, before serving, optionally a default sleep, optionally a callback   *)
(* for post and optionally a duration sequence; the IOLoop keeps running      *)
(* (no stop()): time passes and every due timeout is run.                     *)

InitLive ==
    /\ \E sleep \in {None, Num(1), Num(2)}, with_callback \in BOOLEAN,
          it \in {NoIterator} \cup {Iter(items) : items \in IterMenu} :
          LET r0 == reset(BlankRequest).response
              r1 == DictSet(r0, "sleep", sleep)
          IN
          /\ response = IF with_callback
                        THEN DictSet(r1, CallbackName("post"), Callable("cb"))
                        ELSE r1
          /\ timeout_iterator = it
          /\ nops = Count(sleep /= None) + Count(with_callback)
                    + Count(it /= NoIterator)
    /\ response_once = reset(BlankRequest).response_once
    /\ request = reset(BlankRequest).request
    /\ conns = <<>>
    /\ order = <<>>
    /\ drawn = <<>>
    /\ lastOp = Op("set", 0)
    /\ ret = NoRet
    /\ other = NoInstance
    /\ setup = NoSetup

\* A step of the running loop: a due timeout is run, or wall time passes.
LoopStep ==
    \/ \E i \in 1..MaxRequests, build \in Builds : ResumeSleep(i, build)
    \/ \E i \in 1..MaxRequests : ResumeFinal(i)
    \/ Tick

\* IOLoop.start() (line 171): the loop does not stop while a timeout is
\* pending.
Fairness == WF_vars(LoopStep)

SpecLive == InitLive /\ [][NextRun]_vars /\ Fairness

\* The request found the duration sequence without an entry left.
Exhausted(i) ==
    \E k \in 1..Len(drawn) : drawn[k] = i /\ k > Len(timeout_iterator.items)

\* The states a handler run can be in after a step, given the state it was in
\* before: Sleeping comes first if at all, FinalSleeping comes after the
\* response was written, Completed is last.
Successors(pc) ==
    CASE pc = "Received" -> {"Sleeping", "FinalSleeping", "Completed",
                             "CallbackDelegated", "Hung", "Error500"}
      [] pc = "Sleeping" -> {"Sleeping", "FinalSleeping", "Completed",
                             "CallbackDelegated", "Hung", "Error500"}
      [] pc = "FinalSleeping" -> {"FinalSleeping", "Completed"}
      [] OTHER -> {pc}

\* The state the handler run of request i was in before the step.
Before(i) == IF i > Len(conns) THEN "Received" ELSE conns[i].pc

\* The order of the states: in every step each handler run moves along
\* Received, Sleeping, (capture and composition), FinalSleeping, Completed;
\* it is suspended first exactly when its sleep is non-zero, it is captured in
\* the step that ends Received or Sleeping, it is suspended after the write
\* exactly when a duration sequence is set, and it is finished once Completed.
StatesInOrder ==
    \A i \in 1..Len(conns') :
        Handled(conns'[i]) =>
            LET old == Before(i)
                new == conns'[i].pc
            IN
            /\ new \in Successors(old)
            /\ (old = "Received") =>
                  ((new = "Sleeping") <=> Truthy(conns'[i].sleep))
            /\ (old \in {"Received", "Sleeping"} /\ new /= "Sleeping")
                  <=> (order' = Append(order, i))
            /\ (old /= "FinalSleeping" /\ new = "FinalSleeping") =>
                  /\ timeout_iterator.t = "iter"
                  /\ conns'[i].body /= <<>> /\ ~conns'[i].finished
            /\ (old \in {"Received", "Sleeping"} /\ new = "Completed") =>
                  timeout_iterator.t = "none"
            /\ (new = "Completed") =>
                  /\ conns'[i].finished
                  /\ conns'[i].status /= 0 /\ conns'[i].body /= <<>>

\* A handler run ends otherwise than Completed only by delegation to a
\* configured callback or on an exhausted duration sequence.
EndsOtherwise(i) ==
    \/ /\ conns[i].pc = "CallbackDelegated"
       /\ ConfiguredCallback(conns[i]).t /= "none"
    \/ /\ conns[i].pc \in {"Hung", "Error500"}
       /\ Exhausted(i)

\* C16: every request method_handler is invoked for passes through the states
\* in their order and, unless a callback is configured for its method or the
\* duration sequence has no entry left when it reaches the post-write step,
\* eventually reaches Completed.
C16_EveryRequestCompletes ==
    /\ [][StatesInOrder]_vars
    /\ \A i \in 1..MaxRequests :
          (i \in Ids /\ Handled(conns[i]))
              ~> (i \in Ids /\ (conns[i].pc = "Completed" \/ EndsOtherwise(i)))

\* A request was suspended before its capture and again after its write, and
\* is completed.
C16_Witness_SleptTwiceAndCompleted ==
    \E i \in Ids :
        /\ conns[i].pc = "Completed"
        /\ Truthy(conns[i].sleep)
        /\ i \in Range(drawn)
        /\ ~Exhausted(i)

----------------------------------------------------------------------------
(* C17: the four resolutions of one request are one step. *)

\* The one-shot key get_param reads for the field and the method, if any.
Applicable(once, field, method) ==
    IF (method \o "." \o field) \in DOMAIN once THEN {method \o "." \o field}
    ELSE IF field \in DOMAIN once THEN {field} ELSE {}

\* In a step in which request i is captured and composed: every one-shot entry
\* for code, cookies, headers and data that applied to it before the step is
\* gone after it and is what request i was answered with, and no other
\* request's handler has moved.
ComposesInOneStep ==
    \A i \in 1..Len(conns') :
        (order' = Append(order, i) /\ Composed(conns'[i])) =>
            /\ \A field \in ResponseFields :
                  \A k \in Applicable(response_once, field,
                                      Lower(conns'[i].inp.method)) :
                      /\ k \notin DOMAIN response_once'
                      /\ Observes(conns'[i], field, response_once[k])
            /\ \A j \in 1..Len(conns) : j /= i => conns'[j] = conns[j]

\* C17: code, cookies, headers and data are resolved in one step of the loop,
\* so the one-shot entries for them that apply to a request when it is
\* composed are consumed by that request, all of them.
C17_FourFieldsResolvedInOneStep == [][ComposesInOneStep]_vars

\* One-shot sleep and one-shot code were set together: the first request took
\* the sleep and, resumed later, was answered with the default code, while
\* the one-shot code went to the second request.
C17_Witness_SleepAndCodeTakenApart ==
    /\ {"sleep", "code"} \subseteq DOMAIN setup.once
    /\ Len(conns) = 2
    /\ conns[1].sleep = setup.once["sleep"]
    /\ conns[2].sleep /= setup.once["sleep"]
    /\ Composed(conns[1]) /\ conns[1].status = 200
    /\ Composed(conns[2]) /\ conns[2].status = setup.once["code"].v

----------------------------------------------------------------------------
(* C18: what a callback-delegated request consumes. *)

\* The one-shot keys a step removed, provided it changed no other entry.
Removed ==
    IF \A k \in DOMAIN response_once' :
          k \in DOMAIN response_once /\ response_once'[k] = response_once[k]
    THEN DOMAIN response_once \ DOMAIN response_once'
    ELSE DOMAIN response_once \cup DOMAIN response_once'

\* In a step in which request i is handed to a callback: the duration
\* sequence and response are what they were, every one-shot entry for code,
\* data, headers and cookies is still there, and the step removed at most the
\* one-shot sleep entry that applied to the request, and that only if the
\* request arrived in this very step: a request that was suspended first
\* consumed it, and nothing else, in the step in which it arrived.
DelegatesWithoutConsuming ==
    \A i \in 1..Len(conns') :
        LET method == Lower(conns'[i].inp.method) IN
        /\ (conns'[i].pc = "CallbackDelegated" /\ Before(i) /= "CallbackDelegated") =>
              /\ timeout_iterator' = timeout_iterator
              /\ drawn' = drawn
              /\ response' = response
              /\ Removed \subseteq
                    (IF Before(i) = "Received"
                     THEN Applicable(response_once, "sleep", method) ELSE {})
              /\ \A field \in ResponseFields :
                    \A k \in {field, method \o "." \o field} :
                        k \in DOMAIN response_once =>
                            /\ k \in DOMAIN response_once'
                            /\ response_once'[k] = response_once[k]
        /\ (conns'[i].pc = "Sleeping" /\ Before(i) = "Received") =>
              /\ timeout_iterator' = timeout_iterator
              /\ Removed \subseteq Applicable(response_once, "sleep", method)

\* C18: a callback-delegated request leaves the one-shot entries for code,
\* data, headers and cookies and the duration sequence as they are; all it
\* can consume is the one-shot sleep entry it resolved on arrival.
C18_DelegatedConsumesOnlySleep == [][DelegatesWithoutConsuming]_vars

\* A request that took a one-shot sleep was handed to the callback while a
\* one-shot code, data, header list and cookie list were pending and a duration
\* sequence was set: all are still there, the sequence is at its start.
C18_Witness_DelegatedOverPendingOverrides ==
    \E i \in Ids :
        /\ conns[i].pc = "CallbackDelegated"
        /\ "sleep" \in DOMAIN setup.once
        /\ conns[i].sleep = setup.once["sleep"]
        /\ "sleep" \notin DOMAIN response_once
        /\ {"code", "data", "headers", "cookies"} \subseteq DOMAIN response_once
        /\ timeout_iterator.t = "iter" /\ timeout_iterator.idx = 0

----------------------------------------------------------------------------
(* C19: reset() and the duration sequence. *)

\* A reset() step leaves the sequence and its position as they are; and a
\* request that reaches the post-write step, after however many reset()
\* calls, is suspended for the first duration not yet taken, or finds the
\* sequence exhausted if all were taken.
ResetKeepsSequence ==
    /\ (lastOp'.op = "reset") => timeout_iterator' = timeout_iterator
    /\ \A i \in 1..Len(conns') :
          (drawn' = Append(drawn, i)) =>
              IF timeout_iterator.idx < Len(timeout_iterator.items)
              THEN /\ conns'[i].pc = "FinalSleeping"
                   /\ conns'[i].timer = timeout_iterator.items[timeout_iterator.idx + 1]
                   /\ timeout_iterator'.idx = timeout_iterator.idx + 1
                   /\ timeout_iterator'.items = timeout_iterator.items
              ELSE /\ conns'[i].pc \in {"Hung", "Error500"}
                   /\ timeout_iterator' = timeout_iterator

\* C19: reset() does not touch timeout_iterator: the sequence goes on after a
\* reset() where it was before it.
C19_ResetKeepsDurationSequence == [][ResetKeepsSequence]_vars

\* One request took the first duration, reset() was called, and the next
\* request took the second duration.
C19_Witness_SecondDurationAfterReset ==
    /\ Len(drawn) = 2
    /\ Len(order) = 1 /\ order[1] = drawn[2]
    /\ timeout_iterator.items = <<2, 1>>
    /\ timeout_iterator.idx = 2
    /\ conns[drawn[2]].pc = "FinalSleeping"
    /\ conns[drawn[2]].timer = 1

----------------------------------------------------------------------------
(* Two TestServer instances in one process. `request` is the class attribute  *)
(* of line 18, which no instance ever rebinds: reset() updates it in place    *)
(* and the handler stores into it. `response` and `response_once` are         *)
(* rebound on the instance by reset() (lines 64, 73). The handlers of both    *)
(* instances run on the one IOLoop.instance().                                *)

\* The port the second instance listens on.
OtherPort == 9878

\* other.response[key] = value and other.response_once[key] = value
OtherMenu == { <<"code", Num(202)>>, <<"data", Str("two")>> }
OtherOnceMenu == { <<"code", Num(503)>> }

\* other = TestServer(port=9878): __init__ calls reset() (line 30).
ConstructOther ==
    /\ ~other.constructed
    /\ other' = [constructed |-> TRUE,
                 response |-> reset(request).response,
                 response_once |-> reset(request).response_once]
    /\ request' = reset(request).request
    /\ order' = <<>>
    /\ lastOp' = [op |-> "construct2", id |-> 0, dirty |-> request /= BlankRequest]
    /\ UNCHANGED <<response, response_once, timeout_iterator, conns, drawn, nops,
                   ret, setup>>

\* A slip in reset(): response is updated in place like request, so that it
\* stays the one class-level dict of line 19 for every instance.
ResetOther_shared_response ==
    /\ other.constructed
    /\ nops < MaxConfigOps
    /\ other' = [other EXCEPT !.response = reset(request).response,
                              !.response_once = reset(request).response_once]
    /\ response' = reset(request).response
    /\ request' = reset(request).request
    /\ order' = <<>>
    /\ nops' = nops + 1
    /\ lastOp' = [op |-> "reset2", id |-> 0, dirty |-> request /= BlankRequest]
    /\ UNCHANGED <<response_once, timeout_iterator, conns, drawn, ret, setup>>

\* other.reset()
ResetOther ==
    /\ other.constructed
    /\ nops < MaxConfigOps
    /\ other' = [other EXCEPT !.response = reset(request).response,
                              !.response_once = reset(request).response_once]
    /\ request' = reset(request).request
    /\ order' = <<>>
    /\ nops' = nops + 1
    /\ lastOp' = [op |-> "reset2", id |-> 0, dirty |-> request /= BlankRequest]
    /\ UNCHANGED <<response, response_once, timeout_iterator, conns, drawn, ret,
                   setup>>

SetResponseOther(key, value) ==
    /\ other.constructed
    /\ nops < MaxConfigOps
    /\ other' = [other EXCEPT !.response = DictSet(other.response, key, value)]
    /\ nops' = nops + 1
    /\ lastOp' = Op("set2", 0)
    /\ UNCHANGED <<response, response_once, request, timeout_iterator, conns,
                   order, drawn, ret, setup>>

SetResponseOnceOther(key, value) ==
    /\ other.constructed
    /\ nops < MaxConfigOps
    /\ other' = [other EXCEPT !.response_once =
                                  DictSet(other.response_once, key, value)]
    /\ nops' = nops + 1
    /\ lastOp' = Op("once2", 0)
    /\ UNCHANGED <<response, response_once, request, timeout_iterator, conns,
                   order, drawn, ret, setup>>

\* A request arrives on the second instance's port: its handler (SERVER bound
\* to the second instance, line 77) reads that instance's response and
\* response_once and stores into the shared request. The second instance is
\* given no sleep and no duration sequence here, so its handler runs to
\* finish() in one step.
StartRequestOther(inp, build) ==
    /\ other.constructed
    /\ Len(conns) < MaxRequests
    /\ lastOp' = Op("start2", Len(conns) + 1)
    /\ LET i == Len(conns) + 1
           method == Lower(inp.method)
           c == NewConn([inp EXCEPT !.port = OtherPort])
           sleep == get_param(other.response_once, other.response, "sleep",
                              method, TRUE)
       IN
       IF method \notin HandlerMethods
       THEN /\ conns' = Append(conns, [c EXCEPT !.pc = "MethodNotAllowed",
                                                !.status = 405, !.finished = TRUE])
            /\ UNCHANGED <<request, order, other>>
       ELSE /\ ~sleep.raised
            /\ ~Truthy(sleep.value)
            /\ \E r \in {AfterSleep([c EXCEPT !.sleep = sleep.value], sleep.once,
                                    other.response, request, NoIterator, build)} :
                  /\ conns' = Append(conns, r.conn)
                  /\ other' = [other EXCEPT !.response_once = r.once]
                  /\ request' = r.request
                  /\ order' = Append(order, i)
    /\ UNCHANGED <<response, response_once, timeout_iterator, drawn, nops, ret,
                   setup>>

\* What the test thread writes into the first instance while there are two:
\* no sleep and no duration sequence, so that every handler runs to finish()
\* in one step.
FirstMenu == { <<"code", Num(404)>> }
FirstOnceMenu == { <<"get.code", Num(500)>> }

NextTwo ==
    \/ \E kv \in FirstMenu : SetResponse(kv[1], kv[2])
    \/ \E kv \in FirstOnceMenu : SetResponseOnce(kv[1], kv[2])
    \/ \E inp \in ReqInputs, build \in Builds : StartRequest(inp, build)
    \/ ConstructOther
    \/ ResetOther
    \/ \E kv \in OtherMenu : SetResponseOther(kv[1], kv[2])
    \/ \E kv \in OtherOnceMenu : SetResponseOnceOther(kv[1], kv[2])
    \/ \E inp \in ReqInputs, build \in Builds : StartRequestOther(inp, build)

SpecTwo == Init /\ [][NextTwo]_vars

----------------------------------------------------------------------------
(* C20: what two instances share. *)

\* The operations of, and the requests handled by, the second instance.
OtherOps == {"construct2", "reset2", "set2", "once2", "start2"}

\* What get_param returns on the first instance, for every key and method,
\* without consuming anything.
Resolves(once, resp) ==
    [key \in Fields, method \in methods |->
        LET r == get_param(once, resp, key, method, FALSE)
        IN [raised |-> r.raised, value |-> r.value]]

\* A step of the second instance: constructing or resetting it blanks the
\* request record the first instance exposes, a request it handles overwrites
\* that record with its own data, and none of its steps changes response or
\* response_once of the first instance, nor what get_param returns on it.
\* A step of the first instance leaves the second one's stores as they are.
SharedRecordPrivateStores ==
    /\ (lastOp'.op \in {"construct2", "reset2"}) =>
          request' = [args |-> <<>>, headers |-> <<>>,
                      cookies |-> [t |-> "none", v |-> "None"],
                      path |-> [t |-> "none", v |-> "None"],
                      method |-> [t |-> "none", v |-> "None"],
                      charset |-> [t |-> "str", v |-> "utf-8"],
                      data |-> [t |-> "none", v |-> "None"]]
    /\ (lastOp'.op = "start2" /\ Handled(conns'[lastOp'.id])) =>
          /\ conns'[lastOp'.id].inp.port = OtherPort
          /\ request' = Recorded(conns'[lastOp'.id].inp)
    /\ (lastOp'.op \in OtherOps) =>
          /\ response' = response
          /\ response_once' = response_once
          /\ Resolves(response_once', response') = Resolves(response_once, response)
    /\ (lastOp'.op \notin OtherOps) => other' = other

\* C20: the request record is one for all instances of the process, while
\* response and response_once belong to each instance.
C20_RecordSharedStoresPerInstance == [][SharedRecordPrivateStores]_vars

\* The first instance, configured to answer 404, has answered a request and
\* held its record; the second instance, configured to answer 202, then
\* handled a request: the record is now that of the second instance's
\* request, and the first instance still resolves 404.
C20_Witness_OtherInstanceOverwroteRecord ==
    /\ lastOp.op = "start2"
    /\ Len(conns) = 2
    /\ conns[1].inp.port \in Ports /\ conns[1].status = 404
    /\ conns[2].inp.port = OtherPort /\ conns[2].status = 202
    /\ conns[1].inp.path /= conns[2].inp.path
    /\ request = Recorded(conns[2].inp)
    /\ get_param(response_once, response, "code", "get", FALSE).value = Num(404)

====
